---- MODULE Spec2Model ----
(***************************************************************************)
(* PMMCandles (src/script2.py): a timestamp-gated market-making loop.      *)
(* on_tick cancels the resting orders, builds a two-order proposal from    *)
(* the reference price, the last candle and the balances, passes it to the *)
(* budget checker, filters each order against the current mid-price and    *)
(* submits the accepted ones; did_fill_order accumulates total_profit.     *)
(*                                                                         *)
(* Decimal values are exact fractions <<n, d>> in lowest terms with d > 0. *)
(* Python's Decimal context carries 28 significant digits: every sum,      *)
(* difference and product of the values used here fits in far fewer and is *)
(* exact in the program as well. The prices, balances and candles are      *)
(* chosen so that every quotient is a finite decimal too, except 20/1998   *)
(* and 40/1998, which the program rounds at the 28th digit and then        *)
(* replaces by max_spread and base_order_amount (they exceed them by far). *)
(***************************************************************************)
EXTENDS Integers, Sequences, FiniteSets, TLC

\* ------------------------------------------------------------------ bounds
MaxTime == 31
MaxFills == 1
MaxFillSeq == 3

\* ------------------------------------------------------- Decimal arithmetic
Abs(x) == IF x < 0 THEN -x ELSE x

RECURSIVE GCD(_, _)
GCD(a, b) == IF b = 0 THEN a ELSE GCD(b, a % b)

Norm(n, d) ==
    LET s == IF d < 0 THEN -1 ELSE 1
        g == GCD(Abs(n), Abs(d))
    IN  <<(s * n) \div g, (s * d) \div g>>

Dec(n) == <<n, 1>>
DNeg(a) == <<-a[1], a[2]>>
DAdd(a, b) ==
    LET g == GCD(a[2], b[2])
    IN  Norm(a[1] * (b[2] \div g) + b[1] * (a[2] \div g), (a[2] \div g) * b[2])
DSub(a, b) == DAdd(a, DNeg(b))
\* Common factors are divided out before multiplying.
DMul(a, b) ==
    LET g1 == GCD(Abs(a[1]), b[2])
        g2 == GCD(Abs(b[1]), a[2])
    IN  Norm((a[1] \div g1) * (b[1] \div g2), (a[2] \div g2) * (b[2] \div g1))
DDiv(a, b) == DMul(a, Norm(b[2], b[1]))
DLt(a, b) == a[1] * b[2] < b[1] * a[2]
DGt(a, b) == DLt(b, a)
\* Python's min and max return the first of two equal arguments.
DMin(a, b) == IF DLt(b, a) THEN b ELSE a
DMax(a, b) == IF DGt(b, a) THEN b ELSE a

Zero == Dec(0)
One == Dec(1)

\* ---------------------------------------------------- strategy parameters
order_refresh_time == 15
base_order_amount == <<1, 100>>
min_spread == <<1, 10000>>
max_spread == <<1, 1000>>
RangeFactor == <<1, 2>>
BalanceFraction == <<1, 100>>

\* ------------------------------------------------ collaborator outcomes
\* get_price_by_type: a price, None (absent), or an exception.
PriceValues == {Dec(0), Dec(1998), Dec(2000)}
PriceOutcomes ==
    {[kind |-> "ok", val |-> p] : p \in PriceValues}
        \cup {[kind |-> "none", val |-> Zero], [kind |-> "raise", val |-> Zero]}

\* get_available_balance for the quote and the base asset, or an exception.
QuoteBalances == {Dec(0), Dec(999), Dec(1998), Dec(4000)}
BaseBalances == {Dec(0), <<1, 2>>, Dec(2)}
BalanceOutcomes ==
    {[kind |-> "ok", quote |-> q, base |-> b] : q \in QuoteBalances, b \in BaseBalances}
        \cup {[kind |-> "raise", quote |-> Zero, base |-> Zero]}

\* candles_df["high"].iloc[-1] and ["low"].iloc[-1], or an exception.
CandleValues == {<<Dec(2000), Dec(2000)>>, <<<<1000999, 500>>, Dec(2000)>>,
                 <<Dec(2010), Dec(1990)>>, <<Dec(4000), Dec(4)>>}
CandleOutcomes ==
    {[kind |-> "ok", high |-> c[1], low |-> c[2]] : c \in CandleValues}
        \cup {[kind |-> "raise", high |-> Zero, low |-> Zero]}

\* The balances and candles the refresh loop is explored with; the quoting
\* arithmetic is explored with all of them (SpecQuote).
CycleBalanceOutcomes ==
    {b \in BalanceOutcomes :
        b.kind = "raise" \/ (b.quote \in {Dec(0), Dec(999)} /\ b.base = Dec(2))}
CycleCandleOutcomes ==
    {c \in CandleOutcomes : c.kind = "raise" \/ c.high \in {Dec(2000), Dec(2010)}}

\* budget_checker.adjust_candidates(proposal, all_or_none=True): every order
\* funded, none funded (empty list), or an exception.
BudgetOutcomes == {"all", "empty", "raise"}

\* buy/sell/cancel/get_active_orders: the call returns or raises.
CallOutcomes == {"ok", "raise"}

\* OrderFilledEvent: trade_type, amount, price.
FillEvents ==
    {[trade_type |-> "SELL", amount |-> Dec(1), price |-> Dec(100)],
     [trade_type |-> "BUY", amount |-> Dec(1), price |-> Dec(90)]}

\* The fill events the accumulator is explored with on its own (SpecFills).
AllFillEvents ==
    FillEvents \cup
        {[trade_type |-> "BUY", amount |-> Dec(2), price |-> Dec(50)],
         [trade_type |-> "SELL", amount |-> Dec(1), price |-> Dec(60)],
         [trade_type |-> "SELL", amount |-> <<1, 100>>, price |-> Dec(2002)]}

TickSteps == {0, 7, 15}

\* ------------------------------------------------------- create_proposal
\* `if not ref_price`: None and Decimal 0 are falsy.
Falsy(p) == p.kind = "none" \/ (p.kind = "ok" /\ p.val = Zero)

RecentRange(high, low, ref) == DDiv(DSub(high, low), ref)

\* Mutant: the spread without its upper bound.
DynamicSpreadNoCap(high, low, ref) ==
    DMax(min_spread, DMul(RecentRange(high, low, ref), RangeFactor))

\* Mutant: the spread from the whole range, without the factor 0.5.
DynamicSpreadWholeRange(high, low, ref) ==
    DMin(max_spread, DMax(min_spread, RecentRange(high, low, ref)))

DynamicSpread(high, low, ref) ==
    DMin(max_spread, DMax(min_spread, DMul(RecentRange(high, low, ref), RangeFactor)))

\* Mutant: the larger of the two amounts instead of the smaller.
BuyAmountMax(quote_balance, ref) ==
    DMax(base_order_amount, DDiv(DMul(quote_balance, BalanceFraction), ref))

BuyAmount(quote_balance, ref) ==
    DMin(base_order_amount, DDiv(DMul(quote_balance, BalanceFraction), ref))

SellAmount(base_balance) ==
    DMin(base_order_amount, DMul(base_balance, BalanceFraction))

\* Mutant: the buy price on the sell side of the reference price.
BuyPriceAbove(ref, spread) == DMul(ref, DAdd(One, spread))

BuyPrice(ref, spread) == DMul(ref, DSub(One, spread))
SellPrice(ref, spread) == DMul(ref, DAdd(One, spread))

OrderCandidate(side, amount, price) ==
    [order_side |-> side, amount |-> amount, price |-> price]

\* create_proposal's locals of lines 95-109.
Quote(ref, bal, candle) ==
    LET spread == DynamicSpread(candle.high, candle.low, ref)
    IN  [dynamic_spread |-> spread,
         buy_amount |-> BuyAmount(bal.quote, ref),
         sell_amount |-> SellAmount(bal.base),
         buy_price |-> BuyPrice(ref, spread),
         sell_price |-> SellPrice(ref, spread)]

\* Mutant: the sell order replaced by a second copy of the buy order.
BuildOrdersBuyTwice(ref, bal, candle) ==
    LET q == Quote(ref, bal, candle)
    IN  << OrderCandidate("BUY", q.buy_amount, q.buy_price),
           OrderCandidate("BUY", q.buy_amount, q.buy_price) >>

\* The list returned on the path that reads every input without an exception.
BuildOrders(ref, bal, candle) ==
    LET q == Quote(ref, bal, candle)
    IN  << OrderCandidate("BUY", q.buy_amount, q.buy_price),
           OrderCandidate("SELL", q.sell_amount, q.sell_price) >>

\* Mutant: create_proposal without the readiness test of line 74.
CreateProposalNoReadyTest(ready, p, bal, candle) ==
    IF p.kind = "raise" \/ Falsy(p) THEN << >>
    ELSE IF bal.kind = "raise" \/ candle.kind = "raise" THEN << >>
    ELSE BuildOrders(p.val, bal, candle)

\* create_proposal as a function of what its collaborators answer.
CreateProposal(ready, p, bal, candle) ==
    IF ~ready THEN << >>
    ELSE IF p.kind = "raise" \/ Falsy(p) THEN << >>
    ELSE IF bal.kind = "raise" \/ candle.kind = "raise" THEN << >>
    ELSE BuildOrders(p.val, bal, candle)

\* ------------------------------------------- adjust_proposal_to_budget
\* Mutant: the proposal is kept when the budget checker funds nothing or raises.
AdjustKeepsProposal(proposal, outcome) == proposal

AdjustProposalToBudget(proposal, outcome) ==
    IF outcome = "all" THEN proposal ELSE << >>

\* --------------------------------------------- calculate_expected_profit
\* Mutant: the edge of a buy order computed with the sign of a sell order.
ProfitAsSell(order, mid) ==
    IF mid.kind # "ok" THEN Zero ELSE DSub(order.price, mid.val)

\* Decimal(str(None)) raises, as does a failing price call: both return 0.
CalculateExpectedProfit(order, mid) ==
    IF mid.kind # "ok" THEN Zero
    ELSE IF order.order_side = "SELL" THEN DSub(order.price, mid.val)
    ELSE DSub(mid.val, order.price)

\* place_orders' test on one order.
Accepts(order, mid) == DGt(CalculateExpectedProfit(order, mid), Zero)

\* ------------------------------------------------------- exception handlers
\* The stages of a cycle whose exceptions a try/except of the program catches:
\* cancel_all_orders, create_proposal, adjust_proposal_to_budget,
\* calculate_expected_profit and place_order.
\* Mutant: place_order without its try/except.
HandlesNotOrder(stage) == stage \in {"cancel", "proposal", "budget", "profit"}

\* Mutant: calculate_expected_profit without its try/except.
HandlesNotProfit(stage) == stage \in {"cancel", "proposal", "budget", "order"}

Handles(stage) == stage \in {"cancel", "proposal", "budget", "profit", "order"}

\* ------------------------------------------------------------------- state
VARIABLES
    current_timestamp,  \* the clock's time at the last tick
    create_timestamp,   \* the time from which the next cycle may run
    total_profit,       \* the fill accumulator
    fills,              \* the fill events applied so far, in order
    active,             \* the resting orders, oldest first
    pc,                 \* on_tick's position: "idle" between ticks
    cycle_no,           \* the number of cycles started
    cycle_starts,       \* the current_timestamp of every cycle started
    cancel_queue,       \* cancel_all_orders: the listed orders not yet visited
    cancel_calls,       \* client_order_ids passed to cancel in this cycle
    built,              \* what create_proposal read and computed
    proposal,           \* create_proposal's result
    budget_outcome,     \* what the budget checker answered, "none" before
    proposal_adjusted,  \* adjust_proposal_to_budget's result
    idx,                \* place_orders: the position in proposal_adjusted
    last_eval,          \* place_orders: the last order tested and the mid read
    submit_calls,       \* the buy/sell calls of this cycle, with their outcome
    raised              \* the stages of the latest cycle in which an exception rose

vars == <<current_timestamp, create_timestamp, total_profit, fills, active, pc,
          cycle_no, cycle_starts, cancel_queue, cancel_calls, built, proposal,
          budget_outcome, proposal_adjusted, idx, last_eval, submit_calls, raised>>

clockVars == <<current_timestamp, create_timestamp>>
fillVars == <<total_profit, fills>>
cancelVars == <<cancel_queue, cancel_calls>>
buildVars == <<built, proposal>>
placeVars == <<idx, last_eval, submit_calls>>

UnreadPrice == [kind |-> "unread", val |-> Zero]
UnreadBalance == [kind |-> "unread", quote |-> Zero, base |-> Zero]
UnreadCandle == [kind |-> "unread", high |-> Zero, low |-> Zero]
NoQuote == [dynamic_spread |-> Zero, buy_amount |-> Zero, sell_amount |-> Zero,
            buy_price |-> Zero, sell_price |-> Zero]
NotBuilt == [ready |-> "unread", price |-> UnreadPrice, bal |-> UnreadBalance,
             candle |-> UnreadCandle, quoted |-> FALSE, quote |-> NoQuote]
NoEval == [order_side |-> "none", price |-> Zero, mid |-> UnreadPrice, accepted |-> FALSE]

\* The values on_tick's locals have before the cycle's first statement.
FreshLocals ==
    /\ cancel_queue' = << >>
    /\ cancel_calls' = << >>
    /\ built' = NotBuilt
    /\ proposal' = << >>
    /\ budget_outcome' = "none"
    /\ proposal_adjusted' = << >>
    /\ idx' = 0
    /\ last_eval' = NoEval
    /\ submit_calls' = << >>

Init ==
    /\ current_timestamp = 0
    /\ create_timestamp = 0
    /\ total_profit = Zero
    /\ fills = << >>
    /\ active = << >>
    /\ pc = "idle"
    /\ cycle_no = 0
    /\ cycle_starts = << >>
    /\ cancel_queue = << >>
    /\ cancel_calls = << >>
    /\ built = NotBuilt
    /\ proposal = << >>
    /\ budget_outcome = "none"
    /\ proposal_adjusted = << >>
    /\ idx = 0
    /\ last_eval = NoEval
    /\ submit_calls = << >>
    /\ raised = {}

\* ------------------------------------------------------------------ on_tick
\* Mutant: the gate opens only after create_timestamp has passed.
TriggersStrictly(now) == create_timestamp < now

\* Line 56: the gate of a refresh cycle.
Triggers(now) == create_timestamp <= now

\* Mutant: an exception ends the cycle's work; only line 63 is still executed.
AfterRaiseSkipsRest(stage, next) == "advance"

\* Mutant: an exception stops the strategy where it rose.
AfterRaiseHalts(stage, next) == "halted"

\* on_tick's position after an exception in `stage`: its handler lets the cycle
\* go on at `next`; an exception no handler catches leaves on_tick, and line 63
\* is not executed.
AfterRaise(stage, next) == IF Handles(stage) THEN next ELSE "idle"

\* A clock tick that finds the gate closed: on_tick returns at once.
OnTickSkip(dt) ==
    /\ pc = "idle"
    /\ current_timestamp + dt <= MaxTime
    /\ ~Triggers(current_timestamp + dt)
    /\ current_timestamp' = current_timestamp + dt
    /\ UNCHANGED <<create_timestamp, fillVars, active, pc, cycle_no, cycle_starts,
                   cancelVars, buildVars, budget_outcome, proposal_adjusted,
                   placeVars, raised>>

\* A clock tick that finds the gate open: the cycle starts with cancel_all_orders.
OnTickRefresh(dt) ==
    /\ pc = "idle"
    /\ current_timestamp + dt <= MaxTime
    /\ Triggers(current_timestamp + dt)
    /\ current_timestamp' = current_timestamp + dt
    /\ pc' = "list"
    /\ cycle_no' = cycle_no + 1
    /\ cycle_starts' = Append(cycle_starts, current_timestamp + dt)
    /\ FreshLocals
    /\ raised' = {}
    /\ UNCHANGED <<create_timestamp, fillVars, active>>

\* ------------------------------------------------------- cancel_all_orders
\* get_active_orders: the list the for loop of line 186 iterates.
GetActiveOrders(out) ==
    /\ pc = "list"
    /\ IF out = "ok"
       THEN /\ cancel_queue' = active
            /\ pc' = IF active = << >> THEN "build" ELSE "cancel"
            /\ UNCHANGED raised
       ELSE /\ cancel_queue' = << >>
            /\ pc' = AfterRaise("cancel", "build")
            /\ raised' = raised \cup {"cancel"}
    /\ UNCHANGED <<clockVars, fillVars, active, cycle_no, cycle_starts, cancel_calls,
                   buildVars, budget_outcome, proposal_adjusted, placeVars>>

\* One iteration of the loop: self.cancel on the next listed order. An exception
\* leaves the loop, whose try block encloses it.
Cancel(out) ==
    /\ pc = "cancel"
    /\ cancel_queue # << >>
    /\ LET order == Head(cancel_queue) IN
       /\ cancel_calls' = Append(cancel_calls, order.client_order_id)
       /\ IF out = "ok"
          THEN /\ active' = SelectSeq(active, LAMBDA o : o # order)
               /\ cancel_queue' = Tail(cancel_queue)
               /\ pc' = IF Tail(cancel_queue) = << >> THEN "build" ELSE "cancel"
               /\ UNCHANGED raised
          ELSE /\ active' = active
               /\ cancel_queue' = << >>
               /\ pc' = AfterRaise("cancel", "build")
               /\ raised' = raised \cup {"cancel"}
    /\ UNCHANGED <<clockVars, fillVars, cycle_no, cycle_starts, buildVars,
                   budget_outcome, proposal_adjusted, placeVars>>

\* --------------------------------------------------------- create_proposal
\* What create_proposal has read and computed when it returns: each
\* collaborator is asked only if the statements before it neither returned nor
\* raised, and lines 95-109 run only if every read succeeded.
Reads(ready, p, bal, candle) ==
    LET priced == ready /\ p.kind = "ok" /\ ~Falsy(p)
        quoted == priced /\ bal.kind = "ok" /\ candle.kind = "ok"
    IN  [ready |-> IF ready THEN "ready" ELSE "not_ready",
         price |-> IF ready THEN p ELSE UnreadPrice,
         bal |-> IF priced THEN bal ELSE UnreadBalance,
         candle |-> IF priced /\ bal.kind = "ok" THEN candle ELSE UnreadCandle,
         quoted |-> quoted,
         quote |-> IF quoted THEN Quote(p.val, bal, candle) ELSE NoQuote]

\* Line 58 and the test of line 59.
BuildProposal(ready, p, bal, candle) ==
    /\ pc = "build"
    /\ LET r == Reads(ready, p, bal, candle)
           failed == "raise" \in {r.price.kind, r.bal.kind, r.candle.kind}
       IN  /\ built' = r
           /\ proposal' = CreateProposal(ready, p, bal, candle)
           /\ raised' = IF failed THEN raised \cup {"proposal"} ELSE raised
           /\ pc' = IF failed /\ ~Handles("proposal") THEN "idle"
                    ELSE IF proposal' # << >> THEN "adjust" ELSE "advance"
    /\ UNCHANGED <<clockVars, fillVars, active, cycle_no, cycle_starts, cancelVars,
                   budget_outcome, proposal_adjusted, placeVars>>

\* ------------------------------------------------ adjust_proposal_to_budget
\* Line 60 and the test of line 61.
AdjustBudget(out) ==
    /\ pc = "adjust"
    /\ budget_outcome' = out
    /\ proposal_adjusted' = AdjustProposalToBudget(proposal, out)
    /\ raised' = IF out = "raise" THEN raised \cup {"budget"} ELSE raised
    /\ idx' = 1
    /\ pc' = IF out = "raise" /\ ~Handles("budget") THEN "idle"
             ELSE IF proposal_adjusted' # << >> THEN "filter" ELSE "advance"
    /\ UNCHANGED <<clockVars, fillVars, active, cycle_no, cycle_starts, cancelVars,
                   buildVars, last_eval, submit_calls>>

\* ------------------------------------------------------------ place_orders
\* Mutant: cancel_all_orders called after the last order of place_orders.
NextOrderThenCancel == IF idx < Len(proposal_adjusted) THEN "filter" ELSE "list"

\* The loop of line 144 after the order at idx is dealt with.
NextOrder == IF idx < Len(proposal_adjusted) THEN "filter" ELSE "advance"

\* Line 145: the profit test on the order at idx.
FilterOrder(mid) ==
    /\ pc = "filter"
    /\ LET order == proposal_adjusted[idx]
           ok == Accepts(order, mid)
       IN  /\ last_eval' = [order_side |-> order.order_side, price |-> order.price,
                            mid |-> mid, accepted |-> ok]
           /\ raised' = IF mid.kind # "ok" THEN raised \cup {"profit"} ELSE raised
           /\ IF mid.kind # "ok" /\ ~Handles("profit")
              THEN pc' = "idle" /\ idx' = idx
              ELSE IF ok THEN pc' = "submit" /\ idx' = idx
              ELSE pc' = NextOrder /\ idx' = idx + 1
    /\ UNCHANGED <<clockVars, fillVars, active, cycle_no, cycle_starts, cancelVars,
                   buildVars, budget_outcome, proposal_adjusted, submit_calls>>

\* Mutant: place_order books the value of a submitted order as realised.
PlaceOrderBooksProfit(out) ==
    /\ pc = "submit"
    /\ LET order == proposal_adjusted[idx] IN
       /\ submit_calls' = Append(submit_calls, [order |-> order, idx |-> idx, out |-> out])
       /\ active' = IF out = "ok"
                    THEN Append(active, [client_order_id |-> <<cycle_no, idx>>,
                                         order_side |-> order.order_side])
                    ELSE active
       /\ total_profit' = IF out = "ok"
                          THEN DAdd(total_profit, DMul(order.amount, order.price))
                          ELSE total_profit
       /\ raised' = IF out = "raise" THEN raised \cup {"order"} ELSE raised
       /\ pc' = IF out = "raise" /\ ~Handles("order") THEN "idle"
                ELSE IF idx < Len(proposal_adjusted) THEN "filter" ELSE "advance"
       /\ idx' = idx + 1
    /\ UNCHANGED <<clockVars, fills, cycle_no, cycle_starts, cancelVars, buildVars,
                   budget_outcome, proposal_adjusted, last_eval>>

\* Line 146: place_order on the accepted order; a submitted order rests.
PlaceOrder(out) ==
    /\ pc = "submit"
    /\ LET order == proposal_adjusted[idx] IN
       /\ submit_calls' = Append(submit_calls, [order |-> order, idx |-> idx, out |-> out])
       /\ active' = IF out = "ok"
                    THEN Append(active, [client_order_id |-> <<cycle_no, idx>>,
                                         order_side |-> order.order_side])
                    ELSE active
       /\ raised' = IF out = "raise" THEN raised \cup {"order"} ELSE raised
       /\ pc' = IF out = "raise" THEN AfterRaise("order", NextOrder) ELSE NextOrder
       /\ idx' = idx + 1
    /\ UNCHANGED <<clockVars, fillVars, cycle_no, cycle_starts, cancelVars, buildVars,
                   budget_outcome, proposal_adjusted, last_eval>>

\* Line 63, after which on_tick returns and its locals are gone.
AdvanceTimestamp ==
    /\ pc = "advance"
    /\ create_timestamp' = order_refresh_time + current_timestamp
    /\ pc' = "idle"
    /\ FreshLocals
    /\ UNCHANGED <<current_timestamp, fillVars, active, cycle_no, cycle_starts, raised>>

\* ---------------------------------------------------------- did_fill_order
\* Mutant: every fill added, whatever its side.
ApplyFillAdds(profit, event) == DAdd(profit, DMul(event.amount, event.price))

ApplyFill(profit, event) ==
    IF event.trade_type = "SELL"
    THEN DAdd(profit, DMul(event.amount, event.price))
    ELSE DSub(profit, DMul(event.amount, event.price))

DidFillOrder(event) ==
    /\ total_profit' = ApplyFill(total_profit, event)
    /\ fills' = Append(fills, event)
    /\ UNCHANGED <<clockVars, active, pc, cycle_no, cycle_starts, cancelVars, buildVars,
                   budget_outcome, proposal_adjusted, placeVars, raised>>

\* --------------------------------------------------------- specification
Next ==
    \/ \E dt \in TickSteps : OnTickSkip(dt)
    \/ \E dt \in TickSteps : OnTickRefresh(dt)
    \/ \E out \in CallOutcomes : GetActiveOrders(out)
    \/ \E out \in CallOutcomes : Cancel(out)
    \/ \E ready \in BOOLEAN, p \in PriceOutcomes, bal \in CycleBalanceOutcomes,
          candle \in CycleCandleOutcomes : BuildProposal(ready, p, bal, candle)
    \/ \E out \in BudgetOutcomes : AdjustBudget(out)
    \/ \E mid \in PriceOutcomes : FilterOrder(mid)
    \/ \E out \in CallOutcomes : PlaceOrder(out)
    \/ AdvanceTimestamp
    \/ \E event \in FillEvents : Len(fills) < MaxFills /\ DidFillOrder(event)

Spec == Init /\ [][Next]_vars

\* The quoting arithmetic on its own: a cycle that has reached create_proposal
\* (the first tick at time 0, nothing resting), with every modelled answer of
\* the price, balance and candle collaborators.
InitQuote ==
    /\ current_timestamp = 0
    /\ create_timestamp = 0
    /\ total_profit = Zero
    /\ fills = << >>
    /\ active = << >>
    /\ pc = "build"
    /\ cycle_no = 1
    /\ cycle_starts = <<0>>
    /\ cancel_queue = << >>
    /\ cancel_calls = << >>
    /\ built = NotBuilt
    /\ proposal = << >>
    /\ budget_outcome = "none"
    /\ proposal_adjusted = << >>
    /\ idx = 0
    /\ last_eval = NoEval
    /\ submit_calls = << >>
    /\ raised = {}

NextQuote ==
    \E ready \in BOOLEAN, p \in PriceOutcomes, bal \in BalanceOutcomes,
       candle \in CandleOutcomes : BuildProposal(ready, p, bal, candle)

SpecQuote == InitQuote /\ [][NextQuote]_vars

\* The accumulator on its own: fill events delivered to a strategy that has
\* not ticked yet.
NextFills ==
    \E event \in AllFillEvents : Len(fills) < MaxFillSeq /\ DidFillOrder(event)

SpecFills == Init /\ [][NextFills]_vars

\* The refresh loop under its scheduling. on_tick is sequential code: once
\* called it runs every statement up to its return (CycleStep is taken while a
\* cycle is under way), and the clock goes on calling on_tick with a later
\* timestamp (Tick is taken while the clock is within MaxTime). did_fill_order
\* touches nothing on_tick reads and is left out.
\* create_proposal's collaborators are explored with every kind of answer
\* (a value, a zero or absent price, an exception) and one value of each.
LivePriceOutcomes ==
    {p \in PriceOutcomes : p.kind # "ok" \/ p.val \in {Dec(0), Dec(2000)}}
LiveBalanceOutcomes ==
    {b \in CycleBalanceOutcomes : b.kind = "raise" \/ b.quote = Dec(999)}
LiveCandleOutcomes ==
    {c \in CycleCandleOutcomes : c.kind = "raise" \/ c.high = Dec(2010)}

CycleStep ==
    \/ \E out \in CallOutcomes : GetActiveOrders(out)
    \/ \E out \in CallOutcomes : Cancel(out)
    \/ \E ready \in BOOLEAN, p \in LivePriceOutcomes, bal \in LiveBalanceOutcomes,
          candle \in LiveCandleOutcomes : BuildProposal(ready, p, bal, candle)
    \/ \E out \in BudgetOutcomes : AdjustBudget(out)
    \/ \E mid \in PriceOutcomes : FilterOrder(mid)
    \/ \E out \in CallOutcomes : PlaceOrder(out)
    \/ AdvanceTimestamp

Tick ==
    \/ \E dt \in TickSteps : OnTickSkip(dt)
    \/ \E dt \in TickSteps : OnTickRefresh(dt)

NextLive == Tick \/ CycleStep

SpecLive == Init /\ [][NextLive]_vars /\ WF_vars(CycleStep) /\ WF_vars(Tick)

\* ================================================================ claims
DLe(a, b) == ~DLt(b, a)
Last(seq) == seq[Len(seq)]
Orders(seq) == {seq[i] : i \in 1..Len(seq)}

\* C1 (as stated): in a cycle whose candle feed is not ready, create_proposal
\* returns an empty list and the cycle makes no cancel call and no submit call.
C1_NotReadyNoGatewayCall ==
    built.ready = "not_ready" =>
        proposal = << >> /\ cancel_calls = << >> /\ submit_calls = << >>

\* C1 (amended): in a cycle whose candle feed is not ready, create_proposal
\* returns an empty list without asking for a price, a balance or a candle, the
\* budget checker is not called and no submit call is made; the cancel calls of
\* cancel_all_orders, which runs first, are made all the same.
C1_NotReadyNoSubmit ==
    built.ready = "not_ready" =>
        /\ proposal = << >>
        /\ built.price.kind = "unread"
        /\ budget_outcome = "none"
        /\ submit_calls = << >>
        /\ pc = "advance"

C1_Witness ==
    built.ready = "not_ready" /\ pc = "advance" /\ cancel_calls # << >>

\* C2: in a cycle where the budget checker returns an empty list or raises, no
\* order is submitted, whatever the profit filter would have said.
C2_BudgetRejectionSubmitsNothing ==
    budget_outcome \in {"empty", "raise"} =>
        /\ proposal_adjusted = << >>
        /\ submit_calls = << >>
        /\ last_eval = NoEval
        /\ pc = "advance"

\* The budget checker returned an empty list for a proposal whose two orders
\* have a positive edge against the price they were built from.
C2_Witness ==
    /\ budget_outcome = "empty"
    /\ Len(proposal) = 2
    /\ \A o \in Orders(proposal) : Accepts(o, built.price)

\* C3: every cycle that has started and ended left create_timestamp at the
\* cycle's current_timestamp plus order_refresh_time, whatever rose inside it.
C3_CycleAdvancesTimestamp ==
    (pc = "idle" /\ cycle_starts # << >>) =>
        create_timestamp = Last(cycle_starts) + order_refresh_time

\* A cycle has ended in which the order submission raised.
C3_Witness ==
    /\ pc = "idle"
    /\ "order" \in raised
    /\ create_timestamp = current_timestamp + order_refresh_time

\* C4: a cycle is in progress only at a time its gate allowed
\* (create_timestamp <= current_timestamp); consecutive cycles start at least
\* order_refresh_time apart; nothing but the first cycle follows the initial
\* state; a tick to a time before create_timestamp makes no cancel or submit
\* call and leaves create_timestamp alone, and a tick to a later or equal time
\* starts a cycle.
C4_GateState ==
    /\ pc # "idle" => (create_timestamp <= current_timestamp
                        /\ current_timestamp = Last(cycle_starts))
    /\ \A i \in 1..(Len(cycle_starts) - 1) :
          cycle_starts[i + 1] - cycle_starts[i] >= order_refresh_time
    /\ cycle_starts = << >> =>
          (pc = "idle" /\ current_timestamp = 0 /\ create_timestamp = 0)

C4_GateStep ==
    pc = "idle" /\ fills' = fills =>
        IF current_timestamp' < create_timestamp
        THEN /\ pc' = "idle"
             /\ create_timestamp' = create_timestamp
             /\ cycle_starts' = cycle_starts
             /\ active' = active
             /\ cancel_calls' = << >>
             /\ submit_calls' = << >>
        ELSE /\ pc' = "list"
             /\ cycle_starts' = Append(cycle_starts, current_timestamp')

C4_TimestampGate == [](C4_GateState) /\ [][C4_GateStep]_vars

\* A second cycle has started more than order_refresh_time after the first:
\* the tick in between came before create_timestamp and was skipped.
C4_Witness ==
    /\ Len(cycle_starts) = 2
    /\ cycle_starts[2] > cycle_starts[1] + order_refresh_time
    /\ cycle_starts[2] < cycle_starts[1] + 2 * order_refresh_time

\* A second cycle has started exactly order_refresh_time after the first.
C4_WitnessExactGap ==
    /\ Len(cycle_starts) = 2
    /\ cycle_starts[2] = cycle_starts[1] + order_refresh_time

\* The clock stands between the end of a cycle and create_timestamp.
C4_WitnessSkip ==
    pc = "idle" /\ cycle_starts # << >> /\ current_timestamp > Last(cycle_starts)
        /\ current_timestamp < create_timestamp

\* C5: the profit test accepts an order exactly when its price is on the
\* profitable side of the mid-price read for that test (sell: price > mid, buy:
\* price < mid; never at mid), place_order is reached only with the accepted
\* order, and a submit call is made only from there, for that order.
EdgePositive(e) ==
    /\ e.mid.kind = "ok"
    /\ IF e.order_side = "SELL" THEN DLt(e.mid.val, e.price) ELSE DLt(e.price, e.mid.val)

C5_FilterState ==
    /\ last_eval # NoEval => (last_eval.accepted <=> EdgePositive(last_eval))
    /\ pc = "submit" =>
          /\ last_eval.accepted
          /\ last_eval.order_side = proposal_adjusted[idx].order_side
          /\ last_eval.price = proposal_adjusted[idx].price

C5_SubmitStep ==
    submit_calls' # submit_calls /\ submit_calls' # << >> =>
        /\ pc = "submit"
        /\ Len(submit_calls') = Len(submit_calls) + 1
        /\ Last(submit_calls').order = proposal_adjusted[idx]
        /\ EdgePositive(last_eval)

C5_SubmitOnlyPositiveEdge == [](C5_FilterState) /\ [][C5_SubmitStep]_vars

\* The buy order of a cycle was submitted against a mid-price other than the
\* reference price it was built from, and the sell order, priced at neither,
\* was then refused.
C5_Witness ==
    /\ Len(submit_calls) = 1
    /\ submit_calls[1].order.order_side = "BUY"
    /\ last_eval.order_side = "SELL"
    /\ last_eval.mid.kind = "ok"
    /\ last_eval.mid.val # built.price.val
    /\ ~last_eval.accepted

\* An order priced exactly at the mid-price read for its test was refused.
C5_WitnessAtMid ==
    last_eval # NoEval /\ last_eval.mid.kind = "ok" /\ last_eval.price = last_eval.mid.val
        /\ ~last_eval.accepted /\ pc # "submit"

\* C6: when the mid-price cannot be read for an order (the call raises or
\* returns None), the order is not submitted, the loop goes on to the next
\* order of the proposal, and after the last one the cycle reaches line 63.
C6_MidFailureStep ==
    (pc = "filter" /\ fills' = fills /\ last_eval'.mid.kind # "ok") =>
        /\ ~last_eval'.accepted
        /\ submit_calls' = submit_calls
        /\ active' = active
        /\ idx' = idx + 1
        /\ pc' = IF idx < Len(proposal_adjusted) THEN "filter" ELSE "advance"

C6_MidFailureRejectsOrder ==
    [](last_eval.mid.kind \notin {"ok", "unread"} => pc \in {"filter", "advance"})
        /\ [][C6_MidFailureStep]_vars

\* The mid-price could not be read for the first order, the second order was
\* then tested and submitted, and the cycle has reached line 63.
C6_Witness ==
    /\ "profit" \in raised
    /\ Len(submit_calls) = 1
    /\ submit_calls[1].idx = 2
    /\ pc = "advance"

\* C7 (as stated): every order of a proposal has amount > 0; a side whose
\* sized amount is zero is left out of the proposal.
C7_ProposalAmountsPositive ==
    \A o \in Orders(proposal) : DGt(o.amount, Zero)

\* C7 (as stated), on the submit calls: no zero-size order is submitted.
C7_SubmittedAmountsPositive ==
    \A c \in Orders(submit_calls) : DGt(c.order.amount, Zero)

C9_SpreadWithinBounds ==
    built.quoted =>
        /\ DLe(min_spread, built.quote.dynamic_spread)
        /\ DLe(built.quote.dynamic_spread, max_spread)

\* The range is as large as the price or larger and the spread is max_spread.
C9_Witness ==
    /\ built.quoted
    /\ DLe(built.price.val, DSub(built.candle.high, built.candle.low))
    /\ built.quote.dynamic_spread = max_spread

\* The range is zero and the spread is min_spread.
C9_WitnessZeroRange ==
    /\ built.quoted
    /\ built.candle.high = built.candle.low
    /\ built.quote.dynamic_spread = min_spread

\* C10: with x = (high - low) / (2 * ref), the spread is min_spread if
\* x < min_spread, max_spread if x > max_spread and x otherwise; the buy order
\* is priced at ref * (1 - spread) and the sell order at ref * (1 + spread);
\* ref 2000, high 2010, low 1990 give spread 0.0010 and prices 1998 and 2002.
\* Stated without division: s is the spread, bp and sp the prices, r the
\* reference price and w the range high - low.
C10_SpreadAndPrices ==
    built.quoted =>
        LET s == built.quote.dynamic_spread
            r == built.price.val
            w == DSub(built.candle.high, built.candle.low)
            bp == proposal[1].price
            sp == proposal[2].price
            twice == DAdd(r, r)
            below == DLt(w, DMul(twice, min_spread))
            above == DGt(w, DMul(twice, max_spread))
        IN  /\ below => s = min_spread
            /\ above => s = max_spread
            /\ ~below /\ ~above => DMul(s, twice) = w
            /\ proposal[1].order_side = "BUY" /\ proposal[2].order_side = "SELL"
            /\ DSub(r, bp) = DMul(r, s)
            /\ DSub(sp, r) = DMul(r, s)
            /\ (r = Dec(2000) /\ built.candle.high = Dec(2010) /\ built.candle.low = Dec(1990))
                  => (s = <<1, 1000>> /\ bp = Dec(1998) /\ sp = Dec(2002))

\* The example of the claim: ref 2000, high 2010, low 1990.
C10_Witness ==
    /\ built.quoted
    /\ built.price.val = Dec(2000)
    /\ built.candle.high = Dec(2010) /\ built.candle.low = Dec(1990)
    /\ proposal[1].price = Dec(1998) /\ proposal[2].price = Dec(2002)

\* Half the relative range lies strictly between the two bounds and is the spread.
C10_WitnessUnclamped ==
    /\ built.quoted
    /\ DLt(min_spread, built.quote.dynamic_spread)
    /\ DLt(built.quote.dynamic_spread, max_spread)

\* C11: in every proposal built from a reference price > 0, the buy order is
\* priced strictly below the reference price and the sell order strictly above.
C11_QuotesStraddleReference ==
    built.quoted =>
        /\ DGt(built.price.val, Zero)
        /\ proposal[1].order_side = "BUY"
        /\ DLt(proposal[1].price, built.price.val)
        /\ proposal[2].order_side = "SELL"
        /\ DLt(built.price.val, proposal[2].price)

\* A proposal at the narrowest spread, min_spread: each price is one part in
\* ten thousand of the reference price away from it.
C11_Witness ==
    /\ built.quoted
    /\ built.quote.dynamic_spread = min_spread
    /\ Len(proposal) = 2
    /\ DSub(built.price.val, proposal[1].price) = DMul(built.price.val, min_spread)
    /\ DSub(proposal[2].price, built.price.val) = DMul(built.price.val, min_spread)

\* C12: total_profit is the sum of amount * price over the Sell fills applied
\* minus that sum over the Buy fills; [Sell 1@100, Buy 1@90] gives 10 and
\* [Buy 2@50, Sell 1@60] gives -40.
RECURSIVE SideTotal(_, _)
SideTotal(seq, side) ==
    IF seq = << >> THEN Zero
    ELSE LET e == Head(seq)
             rest == SideTotal(Tail(seq), side)
         IN  IF e.trade_type = side THEN DAdd(DMul(e.amount, e.price), rest) ELSE rest

NetCashFlow(seq) == DSub(SideTotal(seq, "SELL"), SideTotal(seq, "BUY"))

Sell1At100 == [trade_type |-> "SELL", amount |-> Dec(1), price |-> Dec(100)]
Buy1At90 == [trade_type |-> "BUY", amount |-> Dec(1), price |-> Dec(90)]
Buy2At50 == [trade_type |-> "BUY", amount |-> Dec(2), price |-> Dec(50)]
Sell1At60 == [trade_type |-> "SELL", amount |-> Dec(1), price |-> Dec(60)]

C12_ProfitIsNetCashFlow ==
    /\ total_profit = NetCashFlow(fills)
    /\ fills = <<Sell1At100, Buy1At90>> => total_profit = Dec(10)
    /\ fills = <<Buy2At50, Sell1At60>> => total_profit = Dec(-40)

\* The second example of the claim has been applied.
C12_Witness ==
    fills = <<Buy2At50, Sell1At60>> /\ total_profit = Dec(-40)

\* The first example of the claim has been applied.
C12_WitnessFirst ==
    fills = <<Sell1At100, Buy1At90>> /\ total_profit = Dec(10)

\* C13: no step of a refresh cycle changes total_profit; a fill changes
\* total_profit only, leaving create_timestamp, the resting orders, the cycle's
\* position and its cancel and submit calls as they were; so, however fills and
\* cycle steps interleave, total_profit is the net cash flow of the fills.
C13_ProfitStep ==
    /\ fills' = fills => total_profit' = total_profit
    /\ fills' # fills =>
          /\ Len(fills') = Len(fills) + 1
          /\ create_timestamp' = create_timestamp
          /\ current_timestamp' = current_timestamp
          /\ active' = active
          /\ pc' = pc
          /\ cancel_calls' = cancel_calls
          /\ submit_calls' = submit_calls
          /\ proposal' = proposal

C13_ProfitSingleWriter ==
    [](total_profit = NetCashFlow(fills)) /\ [][C13_ProfitStep]_vars

\* A fill has been applied and a cycle stands between the profit test and the
\* submit call of its second order, the first being submitted.
C13_Witness ==
    /\ pc = "submit"
    /\ idx = 2
    /\ Len(submit_calls) = 1
    /\ fills # << >>
    /\ total_profit # Zero

\* C14 (as stated): once cancel_all_orders has returned, a cancel call has been
\* made in this cycle for every order that was resting when the cycle started
\* (the orders still resting then are among them: nothing is submitted before).
C14_CancelEveryRestingOrder ==
    pc = "build" =>
        \A o \in Orders(active) : o.client_order_id \in Orders(cancel_calls)

\* C14 (as stated), where the list of resting orders was obtained and a cancel
\* call was made: the orders listed after it have their cancel call as well.
C14_CancelAfterFailedCancel ==
    (pc = "build" /\ cancel_calls # << >>) =>
        \A o \in Orders(active) : o.client_order_id \in Orders(cancel_calls)

\* C15 (as stated): after a failure in cancel_all_orders the cycle goes on
\* with create_proposal and what follows it, and an order that an earlier cycle
\* left resting (it was submitted two cycles ago or more) has its cancel call
\* in this cycle once cancel_all_orders has returned.
C15_CancelFailureContinuesAndRetries ==
    /\ ("cancel" \in raised /\ pc # "idle") =>
          pc \in {"build", "adjust", "filter", "submit", "advance"}
    /\ pc = "build" =>
          \A o \in Orders(active) :
              o.client_order_id[1] + 2 <= cycle_no =>
                  o.client_order_id \in Orders(cancel_calls)

\* C16: the scheduler never halts. Under fair scheduling (SpecLive) a cycle
\* that has started always comes back to idle, whatever the collaborators
\* answer (success, empty result, exception); and from idle the next cycle
\* always starts, for every cycle whose scheduled time create_timestamp leaves
\* the clock room for one more refresh period before MaxTime.
C16_SchedulerNeverHalts ==
    /\ (pc # "idle") ~> (pc = "idle")
    /\ (pc = "idle" /\ create_timestamp + order_refresh_time <= MaxTime) ~> (pc = "list")

\* A second cycle, in which a cancel and a submission raised, is back at idle.
C16_Witness ==
    /\ pc = "idle"
    /\ cycle_no = 2
    /\ {"cancel", "order"} \subseteq raised
    /\ create_timestamp = Last(cycle_starts) + order_refresh_time

\* A third cycle has started after a cycle in which an exception rose.
C16_WitnessNextCycle ==
    /\ pc = "list"
    /\ cycle_no = 3

\* C17: within a cycle the steps come in the order cancel, build, budget
\* adjustment, profit filter, submit. Nothing is read or built while the
\* cancel stage runs, the budget is asked only about a built proposal, the
\* filter runs only on a funded proposal, an order is submitted only after the
\* filter; every cancel call is made before the price and balances are read
\* and before any submission of the cycle, and no cancel call names an order
\* the cycle submitted itself.
C17_StageOrderState ==
    /\ pc \in {"list", "cancel"} =>
          built = NotBuilt /\ budget_outcome = "none" /\ submit_calls = << >>
    /\ budget_outcome # "none" => built.quoted
    /\ last_eval # NoEval => budget_outcome = "all"
    /\ submit_calls # << >> => last_eval # NoEval
    /\ \A id \in Orders(cancel_calls) : id[1] < cycle_no

C17_CancelStep ==
    Len(cancel_calls') > Len(cancel_calls) =>
        /\ built = NotBuilt /\ built' = NotBuilt
        /\ budget_outcome = "none"
        /\ last_eval = NoEval
        /\ submit_calls = << >>

C17_CancelBeforeBuildAndSubmit == [](C17_StageOrderState) /\ [][C17_CancelStep]_vars

\* A cycle that cancelled the orders of the cycle before and submitted two of
\* its own.
C17_Witness ==
    /\ pc = "advance"
    /\ Len(cancel_calls) = 2
    /\ Len(submit_calls) = 2
    /\ \A i \in 1..2 : submit_calls[i].out = "ok"

\* C18: an exception in place_order for one order leaves the loop of
\* place_orders running: the step goes to the filter of the next order, or to
\* line 63 after the last one; when the first submission raised, the second
\* order has been evaluated by the filter and, if accepted, submitted before
\* the cycle reaches line 63; and the cycle ends with create_timestamp advanced.
C18_FailedSubmit(calls) ==
    {i \in 1..Len(calls) : calls[i].out = "raise" /\ calls[i].idx = 1}

C18_SubmitFailureState ==
    /\ (pc = "advance" /\ C18_FailedSubmit(submit_calls) # {}
            /\ Len(proposal_adjusted) = 2) =>
          /\ last_eval.order_side = proposal_adjusted[2].order_side
          /\ last_eval.price = proposal_adjusted[2].price
          /\ last_eval.accepted =>
                \E j \in 1..Len(submit_calls) : submit_calls[j].idx = 2
    /\ (pc = "idle" /\ "order" \in raised) =>
          create_timestamp = Last(cycle_starts) + order_refresh_time

C18_SubmitFailureStep ==
    (Len(submit_calls') > Len(submit_calls) /\ Last(submit_calls').out = "raise") =>
        /\ pc' = IF idx < Len(proposal_adjusted) THEN "filter" ELSE "advance"
        /\ create_timestamp' = create_timestamp

C18_SubmitFailureIsolated == [](C18_SubmitFailureState) /\ [][C18_SubmitFailureStep]_vars

\* The buy submission raised, the sell order was then accepted and submitted.
C18_Witness ==
    /\ pc = "advance"
    /\ Len(submit_calls) = 2
    /\ submit_calls[1].out = "raise" /\ submit_calls[1].order.order_side = "BUY"
    /\ submit_calls[2].out = "ok" /\ submit_calls[2].order.order_side = "SELL"

\* C19: the budget checker answering with the proposal or with an empty list
\* (or raising), a cycle makes at most one buy call and at most one sell call,
\* two calls at most; and a cycle that read no reference price (None or zero)
\* makes no submit call.
C19_SideCalls(side) ==
    {i \in 1..Len(submit_calls) : submit_calls[i].order.order_side = side}

C19_AtMostOneOrderPerSide ==
    /\ Cardinality(C19_SideCalls("BUY")) <= 1
    /\ Cardinality(C19_SideCalls("SELL")) <= 1
    /\ Len(submit_calls) <= 2
    /\ (built.ready = "ready" /\ Falsy(built.price)) => submit_calls = << >>

\* Both orders of one cycle submitted.
C19_Witness ==
    /\ Len(submit_calls) = 2
    /\ Cardinality(C19_SideCalls("BUY")) = 1
    /\ Cardinality(C19_SideCalls("SELL")) = 1

\* A cycle whose reference price was zero has reached line 63.
C19_WitnessNoPrice ==
    /\ pc = "advance"
    /\ built.price.kind = "ok" /\ built.price.val = Zero
    /\ submit_calls = << >>

====
